---- MODULE Spec2Model ----
(***************************************************************************)
(* Depthify upload page (my-react-depthify/src/pages/UploadPage.jsx) and   *)
(* its REST client (src/services/api.js), as a state machine.              *)
(*                                                                         *)
(* The page is a React function component.  Every event handler and every  *)
(* continuation of an async function between two awaits runs to completion *)
(* on the UI thread, so each is one atomic action here.  An invocation of  *)
(* startProcessing is a record holding its closure (the file and preview   *)
(* it captured), its local variables (newProjectId, i) and the await it is *)
(* suspended at.  objectType and dragOver do not influence any other state *)
(* and are left out.                                                       *)
(*                                                                         *)
(* The second part is the static WebGL viewer page                         *)
(* (depthify-backend/models/exports/..._viewer.html): its globals, the     *)
(* loader callbacks, the render loop and the three button handlers.  The   *)
(* two pages share no state: Spec and SpecOneJob run the upload page with  *)
(* the viewer at rest, SpecViewer runs the viewer with the upload page at  *)
(* rest.  The viewer's resize listener only changes the camera's aspect    *)
(* ratio and the canvas size and is left out.                              *)
(***************************************************************************)
EXTENDS Integers, Sequences, FiniteSets, TLC

\* ------------------------------------------------------------------ bounds
MaxInvocations == 2    \* startProcessing invocations over one run
MaxPendingReads == 1   \* FileReader loads in flight at once
MaxDownloads == 1      \* download requests in flight at once
MaxRotation == 2       \* auto-rotate increments applied to the model
MaxDrag == 2           \* orbit motion a user can have pending in the controls

\* --------------------------------------------------------------- constants
NumSteps == 7                \* processingSteps.length
FallbackVertices == 15420
FallbackFaces == 30840
FallbackTimeTenths == 23     \* 2.3, numbers of seconds are kept in tenths
IdBase == 100                \* backend project ids are IdBase + request number

Null == "null"               \* a null file / preview
NoId == 0                    \* a null project id
Absent == -1                 \* a field missing from a JSON body

\* Files the user can pick; "none" is files[0] of an empty file list.
ImageFiles == {"a.png"}
OtherFiles == {"c.pdf"}
NoFile == "none"
Files == ImageFiles \cup OtherFiles

FileType(f) ==
  CASE f = "a.png" -> <<"image", "png">>
    [] f = "c.pdf" -> <<"application", "pdf">>

\* Mutant of IsImageFile: the type test is dropped
IsImageFile_AnyType(f) == f # NoFile

\* file && file.type.startsWith('image/')
IsImageFile(f) == f # NoFile /\ FileType(f)[1] = "image"

\* FileReader.readAsDataURL: the preview is a data URL of the file's content
DataURL(f) == "data:" \o FileType(f)[1] \o "/" \o FileType(f)[2] \o ";" \o f

ValidationMsg == "Please select a valid image file"
PageFallbackMsg == "Processing failed. Please try again."
DownloadMsg == "Download failed. Please try again."
ServerMsg == "Image too large"

\* What axios can reject with: a response whose body has an error field, a
\* response whose body has none, or no response at all (transport failure).
Failures == {"serverError", "serverNoField", "noResponse"}

\* api.js: throw error.response?.data || { error: '<fallback>' }
\* The thrown object is represented by its error field.
ApiFallback(op) ==
  CASE op = "upload" -> "Upload failed"
    [] op = "process" -> "Processing failed"
    [] op = "download" -> "Download failed"

ApiThrown(op, failure) ==
  CASE failure = "serverError" -> ServerMsg
    [] failure = "serverNoField" -> ""
    [] failure = "noResponse" -> ApiFallback(op)

\* setError(error.error || 'Processing failed. Please try again.')
CaughtMsg(thrownError) == IF thrownError # "" THEN thrownError ELSE PageFallbackMsg

\* Success bodies of POST /process/<id>: hasProject FALSE is a body with no
\* project object; each metric is Absent, 0 or a positive number.
VertexValues == {Absent, 0, 20000}
FaceValues == {Absent, 0, 40000}
TimeValues == {Absent, 0, 15}
ProcessBodies ==
  [hasProject : {TRUE}, vertices_count : VertexValues,
   faces_count : FaceValues, processing_time : TimeValues]
  \cup {[hasProject |-> FALSE, vertices_count |-> Absent,
         faces_count |-> Absent, processing_time |-> Absent]}

\* The bodies the interleavings of several jobs are explored with: a complete
\* project object, and no project object
MainBodies ==
  {[hasProject |-> TRUE, vertices_count |-> 20000, faces_count |-> 40000,
    processing_time |-> 15],
   [hasProject |-> FALSE, vertices_count |-> Absent, faces_count |-> Absent,
    processing_time |-> Absent]}

\* JavaScript a || b on a number-or-undefined a: undefined and 0 are falsy
OrElse(a, b) == IF a = Absent \/ a = 0 THEN b ELSE a

\* Template literal `${n}` for a number kept in tenths
FormatTenths(n) ==
  IF n % 10 = 0 THEN ToString(n \div 10)
  ELSE ToString(n \div 10) \o "." \o ToString(n % 10)

DownloadUrl(id) == "/api/projects/" \o ToString(id) \o "/download"

\* The object passed to setResult3D
MakeResult(id, preview, body) ==
  [projectId |-> id,
   plyFile |-> DownloadUrl(id),
   stlFile |-> DownloadUrl(id),
   previewImage |-> preview,
   stats |-> [vertices |-> OrElse(body.vertices_count, FallbackVertices),
              faces |-> OrElse(body.faces_count, FallbackFaces),
              processingTime |->
                FormatTenths(OrElse(body.processing_time, FallbackTimeTenths)) \o "s"]]

\* The backend answers the n-th upload request with project id IdBase + n
ServerId(k) == IdBase + k

\* ----------------------------------------------------------- viewer values
\* Coordinates, sizes and scale factors are rationals <<n, d>> in lowest
\* terms with d > 0, so that 50 / maxSize and the centre of a box are exact.
RECURSIVE GCD(_, _)
GCD(a, b) == IF b = 0 THEN a ELSE GCD(b, a % b)

Abs(n) == IF n < 0 THEN 0 - n ELSE n

Frac(n, d) ==
  LET g == GCD(Abs(n), Abs(d))
      sgn == IF d < 0 THEN 0 - 1 ELSE 1
  IN <<sgn * (n \div g), sgn * (d \div g)>>

Num(n) == <<n, 1>>
Plus(a, b) == Frac(a[1] * b[2] + b[1] * a[2], a[2] * b[2])
Minus(a, b) == Frac(a[1] * b[2] - b[1] * a[2], a[2] * b[2])
Times(a, b) == Frac(a[1] * b[1], a[2] * b[2])
Over(a, b) == Frac(a[1] * b[2], a[2] * b[1])
Less(a, b) == a[1] * b[2] < b[1] * a[2]

\* Math.max and Math.min of a set of numbers
MathMax(S) == CHOOSE x \in S : \A y \in S : ~Less(x, y)
MathMin(S) == CHOOSE x \in S : \A y \in S : ~Less(y, x)

\* THREE.Vector3
Vec(x, y, z) == <<Num(x), Num(y), Num(z)>>
Zero3 == Vec(0, 0, 0)
VAdd(u, v) == <<Plus(u[1], v[1]), Plus(u[2], v[2]), Plus(u[3], v[3])>>
VSub(u, v) == <<Minus(u[1], v[1]), Minus(u[2], v[2]), Minus(u[3], v[3])>>
VScale(k, v) == <<Times(k, v[1]), Times(k, v[2]), Times(k, v[3])>>

\* The GLB files the viewer can be given.  Each has the bounding box of its
\* geometry in the coordinates of gltf.scene and a scene graph.
Assets == {"centred", "offCentre", "fits", "largeCentred", "largeOffCentre"}

AssetBox(a) ==
  CASE a = "centred" -> [min |-> Vec(-10, -5, -10), max |-> Vec(10, 5, 10)]
    [] a = "offCentre" -> [min |-> Vec(0, 0, 0), max |-> Vec(20, 40, 10)]
    [] a = "fits" -> [min |-> Vec(-25, -10, -5), max |-> Vec(25, 10, 5)]
    [] a = "largeCentred" ->
         [min |-> Vec(-60, -30, -15), max |-> Vec(60, 30, 15)]
    [] a = "largeOffCentre" ->
         [min |-> Vec(0, 0, 0), max |-> Vec(100, 50, 20)]

\* Scene graphs: node 1 is gltf.scene.  The flat one has a single mesh; the
\* nested one has a mesh and a group under the root, a mesh and an empty
\* node under the group, and a mesh under that mesh.
FlatGraph ==
  [children |-> (1 :> {2}) @@ (2 :> {}),
   isMesh |-> (1 :> FALSE) @@ (2 :> TRUE)]

NestedGraph ==
  [children |-> (1 :> {2, 3}) @@ (2 :> {}) @@ (3 :> {4, 5}) @@ (4 :> {6})
                @@ (5 :> {}) @@ (6 :> {}),
   isMesh |-> (1 :> FALSE) @@ (2 :> TRUE) @@ (3 :> FALSE) @@ (4 :> TRUE)
              @@ (5 :> FALSE) @@ (6 :> TRUE)]

AssetGraph(a) ==
  IF a \in {"largeCentred", "largeOffCentre", "offCentre"}
  THEN NestedGraph ELSE FlatGraph

Meshes(a) == {n \in DOMAIN AssetGraph(a).isMesh : AssetGraph(a).isMesh[n]}

\* Mutant of Traverse: only the object and its direct children are visited
Traverse_ChildrenOnly(g, n) == {n} \cup g.children[n]

\* Object3D.traverse: the object and all its descendants
RECURSIVE Traverse(_, _)
Traverse(g, n) == {n} \cup UNION {Traverse(g, c) : c \in g.children[n]}

\* Angles are counted in steps of 0.01 rad, the auto-rotate increment
AngleUnitsPerRad == 100

\* Object3D.matrixWorld of the model applied to a point: scale, rotation
\* about y, translation.  The angles reached are at most MaxRotation steps
\* of 0.01 rad and the rotation is taken to first order in the angle
\* (cos t = 1, sin t = t).
ToWorld(m, p) ==
  LET q == VScale(m.scale, p)
      t == Frac(m.rotation, AngleUnitsPerRad)
  IN VAdd(m.position,
          <<Plus(q[1], Times(q[3], t)), q[2], Minus(q[3], Times(q[1], t))>>)

Corners(b) ==
  {<<x, y, z>> : x \in {b.min[1], b.max[1]}, y \in {b.min[2], b.max[2]},
                 z \in {b.min[3], b.max[3]}}

\* Box3.setFromPoints
BoxOfPoints(pts) ==
  [min |-> <<MathMin({p[1] : p \in pts}), MathMin({p[2] : p \in pts}),
             MathMin({p[3] : p \in pts})>>,
   max |-> <<MathMax({p[1] : p \in pts}), MathMax({p[2] : p \in pts}),
             MathMax({p[3] : p \in pts})>>]

\* new THREE.Box3().setFromObject(m): the world-space box of the geometry
SetFromObject(m) ==
  BoxOfPoints({ToWorld(m, p) : p \in Corners(AssetBox(m.asset))})

\* Box3.getCenter and Box3.getSize
GetCenter(b) == VScale(Frac(1, 2), VAdd(b.min, b.max))
GetSize(b) == VSub(b.max, b.min)
MaxSize(b) == MathMax({GetSize(b)[1], GetSize(b)[2], GetSize(b)[3]})

\* The size the viewer scales large models down to
FitSize == 50

\* Mutant of FitScale: the quotient is inverted
FitScale_Inverted(maxSize) ==
  IF Less(Num(FitSize), maxSize) THEN Over(maxSize, Num(FitSize)) ELSE Num(1)

\* if (maxSize > 50) scale = 50 / maxSize; the scale stays 1 otherwise
FitScale(maxSize) ==
  IF Less(Num(FitSize), maxSize) THEN Over(Num(FitSize), maxSize) ELSE Num(1)

\* gltf.scene as the loader hands it over: identity transform, and the
\* materials GLTFLoader creates have wireframe false
FreshModel(a) ==
  [asset |-> a, position |-> Zero3, scale |-> Num(1), rotation |-> 0,
   wireframe |-> [n \in Meshes(a) |-> FALSE]]

\* controls.dampingFactor = 0.05 with enableDamping: OrbitControls.update()
\* turns the camera about the target by the pending orbit motion and lets
\* that motion decay, so it runs out after finitely many updates.  The
\* camera is kept as the position the page's code last set and the angle the
\* controls have turned it since (swing, in TurnUnits-ths of a full turn);
\* the pending motion is a whole number of such units.
TurnUnits == 8

Decay(delta) == IF delta > 0 THEN delta - 1 ELSE 0

ControlsUpdate(cam, ctl) ==
  [camera |-> [cam EXCEPT !.swing = (@ + ctl.delta) % TurnUnits],
   controls |-> [ctl EXCEPT !.delta = Decay(@)]]

\* camera.position.set(0, 0, 100)
CameraStart == Vec(0, 0, 100)

\* The overlay #info: the help text the page ships with, or the load error
InfoHelp == "Mouse: Rotate | Wheel: Zoom | Right: Pan"
InfoLoadError == "Error loading model. Make sure the GLB file is in the same folder"

\* Sizes of the browser window (innerWidth, innerHeight), in hundreds of
\* pixels, and the size the window has when the page is opened
WindowSizes == {<<4, 3>>, <<3, 4>>}

WindowAtOpen == <<4, 3>>

\* What the page derives from the window size: camera.aspect and the size
\* of the renderer's canvas
Viewport(w) == [aspect |-> Frac(w[1], w[2]), size |-> w]

VARIABLES
  uploadedImage,   \* useState: preview data URL or Null
  uploadedFile,    \* useState: selected file or Null
  projectId,       \* useState: project id or NoId
  isProcessing,    \* useState
  processingStep,  \* useState: index into processingSteps
  result3D,        \* useState: <<>> for null, <<r>> for the result object r
  error,           \* useState: error text, "" for none
  reading,         \* FileReader loads in flight: file -> how many
  inv,             \* startProcessing invocations, in order of invocation
  downloads,       \* number of handleDownload invocations awaiting their response
  requests,        \* every HTTP request issued so far
  afterReset,      \* history: resetUpload ran and no user input came since
  staleIds,        \* history: project ids received before the latest reset
  inOrder          \* history: since the last startProcessing call every
                   \*          setProcessingStep kept the index or raised it by 1
                   \* (the three histories are kept by SpecMonitored only)

VARIABLES
  model,           \* let model: <<>> while undefined, <<m>> once loaded
  wireframeMode,   \* let wireframeMode
  autoRotate,      \* let autoRotate
  camera,          \* camera.position and the swing the controls added
  controls,        \* controls.target and the pending orbit motion
  info,            \* text of the overlay #info
  loading,         \* loader.load has not called back yet
  pendingFrames,   \* callbacks registered with requestAnimationFrame
  lastOp,          \* history: the last step of the viewer
  wireBefore,      \* history: the meshes' wireframe flags before the last
                   \*          toggleWireframe call
  viewport         \* camera.aspect and the size of the renderer's canvas

uploadVars == <<uploadedImage, uploadedFile, projectId, isProcessing,
                processingStep, result3D, error, reading, inv, downloads,
                requests, afterReset, staleIds, inOrder>>

viewerVars == <<model, wireframeMode, autoRotate, camera, controls, info,
                loading, pendingFrames, lastOp, wireBefore, viewport>>

vars == <<uploadVars, viewerVars>>

pageVars == <<uploadedImage, uploadedFile, projectId, isProcessing,
              processingStep, result3D, error>>

\* The viewer when init() has returned: the load is under way and animate()
\* has run once and registered itself for the next frame
ViewerInit ==
  /\ model = <<>>
  /\ wireframeMode = FALSE
  /\ autoRotate = FALSE
  /\ camera = [position |-> CameraStart, swing |-> 0]
  /\ controls = [target |-> Zero3, delta |-> 0]
  /\ info = InfoHelp
  /\ loading = TRUE
  /\ pendingFrames = 1
  /\ lastOp = "init"
  /\ wireBefore = <<>>
  /\ viewport = Viewport(WindowAtOpen)

Init ==
  /\ uploadedImage = Null
  /\ uploadedFile = Null
  /\ projectId = NoId
  /\ isProcessing = FALSE
  /\ processingStep = 0
  /\ result3D = <<>>
  /\ error = ""
  /\ reading = [f \in Files |-> 0]
  /\ inv = <<>>
  /\ downloads = 0
  /\ requests = {}
  /\ afterReset = FALSE
  /\ staleIds = {}
  /\ inOrder = TRUE
  /\ ViewerInit

\* ---------------------------------------------------------------- helpers
RECURSIVE SumReads(_, _)
SumReads(r, S) ==
  IF S = {} THEN 0
  ELSE LET f == CHOOSE x \in S : TRUE IN r[f] + SumReads(r, S \ {f})

PendingReads == SumReads(reading, Files)

\* What the render shows
DropZoneShown == uploadedImage = Null
ResetShown == uploadedImage # Null
GenerateShown == uploadedImage # Null /\ ~isProcessing /\ result3D = <<>>
DownloadShown == result3D # <<>>

\* ------------------------------------------------------------ file select
\* handleFileSelect(file), reached from the drop zone or its file input
handleFileSelect(f) ==
  /\ DropZoneShown
  /\ IF IsImageFile(f)
     THEN /\ PendingReads < MaxPendingReads
          /\ reading' = [reading EXCEPT ![f] = @ + 1]
          /\ error' = error
     ELSE /\ error' = ValidationMsg
          /\ reading' = reading
  /\ UNCHANGED <<uploadedImage, uploadedFile, projectId, isProcessing,
                 processingStep, result3D, inv, downloads, requests>>
  /\ UNCHANGED viewerVars

\* Mutant of ReaderOnload: the loaded file is reported as not valid
ReaderOnload_SetsValidationError(f) ==
  /\ reading[f] > 0
  /\ reading' = [reading EXCEPT ![f] = @ - 1]
  /\ uploadedImage' = DataURL(f)
  /\ uploadedFile' = f
  /\ result3D' = <<>>
  /\ error' = ValidationMsg
  /\ projectId' = NoId
  /\ UNCHANGED <<isProcessing, processingStep, inv, downloads, requests>>
  /\ UNCHANGED viewerVars

\* reader.onload
ReaderOnload(f) ==
  /\ reading[f] > 0
  /\ reading' = [reading EXCEPT ![f] = @ - 1]
  /\ uploadedImage' = DataURL(f)
  /\ uploadedFile' = f
  /\ result3D' = <<>>
  /\ error' = ""
  /\ projectId' = NoId
  /\ UNCHANGED <<isProcessing, processingStep, inv, downloads, requests>>
  /\ UNCHANGED viewerVars

\* -------------------------------------------------------- startProcessing
\* Click on "Generate 3D Model": the function up to its first await
startProcessing ==
  /\ GenerateShown
  /\ uploadedFile # Null
  /\ Len(inv) < MaxInvocations
  /\ isProcessing' = TRUE
  /\ processingStep' = 0
  /\ error' = ""
  /\ inv' = Append(inv, [pc |-> "upload", file |-> uploadedFile,
                         image |-> uploadedImage, newProjectId |-> NoId,
                         i |-> 0, shown |-> {0}, outcome |-> "running",
                         body |-> <<>>, uploads |-> 1, processes |-> 0])
  /\ requests' = requests \cup
       {[op |-> "upload", inv |-> Len(inv) + 1, pid |-> NoId,
         file |-> uploadedFile]}
  /\ UNCHANGED <<uploadedImage, uploadedFile, projectId, result3D, reading,
                 downloads>>
  /\ UNCHANGED viewerVars

\* Mutant of UploadResolve: the process request is sent when the phase loop
\* starts instead of when it ends
UploadResolve_ProcessFirst(k) ==
  /\ inv[k].pc = "upload"
  /\ LET id == ServerId(k) IN
     /\ projectId' = id
     /\ processingStep' = 1
     /\ inv' = [inv EXCEPT ![k].pc = "timer", ![k].newProjectId = id,
                           ![k].i = 1, ![k].shown = @ \cup {1}]
     /\ requests' = requests \cup
          {[op |-> "process", inv |-> k, pid |-> id, file |-> Null]}
  /\ UNCHANGED <<uploadedImage, uploadedFile, isProcessing, result3D, error,
                 reading, downloads>>
  /\ UNCHANGED viewerVars

\* The upload resolved: lines 89-99, up to the first timer
UploadResolve(k) ==
  /\ inv[k].pc = "upload"
  /\ LET id == ServerId(k) IN
     /\ projectId' = id
     /\ processingStep' = 1
     /\ inv' = [inv EXCEPT ![k].pc = "timer", ![k].newProjectId = id,
                           ![k].i = 1, ![k].shown = @ \cup {1}]
  /\ UNCHANGED <<uploadedImage, uploadedFile, isProcessing, result3D, error,
                 reading, downloads, requests>>
  /\ UNCHANGED viewerVars

\* Mutant of UploadReject: the rejection is swallowed and the job goes on
\* without a project id
UploadReject_Swallowed(k, failure) ==
  /\ inv[k].pc = "upload"
  /\ failure \in Failures
  /\ processingStep' = 1
  /\ inv' = [inv EXCEPT ![k].pc = "timer", ![k].i = 1,
                        ![k].shown = @ \cup {1},
                        ![k].outcome = "uploadFailed"]
  /\ UNCHANGED <<uploadedImage, uploadedFile, projectId, isProcessing,
                 result3D, error, reading, downloads, requests>>
  /\ UNCHANGED viewerVars

\* Mutant of UploadReject: the failed upload is sent again
UploadReject_Retry(k, failure) ==
  /\ inv[k].pc = "upload"
  /\ failure \in Failures
  /\ inv' = [inv EXCEPT ![k].uploads = @ + 1]
  /\ requests' = requests \cup
       {[op |-> "upload", inv |-> k, pid |-> NoId, file |-> inv[k].file]}
  /\ UNCHANGED <<uploadedImage, uploadedFile, projectId, isProcessing,
                 processingStep, result3D, error, reading, downloads>>
  /\ UNCHANGED viewerVars

\* The upload rejected: catch and finally
UploadReject(k, failure) ==
  /\ inv[k].pc = "upload"
  /\ error' = CaughtMsg(ApiThrown("upload", failure))
  /\ isProcessing' = FALSE
  /\ inv' = [inv EXCEPT ![k].pc = "done", ![k].outcome = "uploadFailed"]
  /\ UNCHANGED <<uploadedImage, uploadedFile, projectId, processingStep,
                 result3D, reading, downloads, requests>>
  /\ UNCHANGED viewerVars

\* Mutant of LoopContinues: the loop stops one phase early
LoopContinues_OneShort(i) == i < NumSteps - 1

\* Mutant of LoopContinues: the loop runs one round too many
LoopContinues_OneMore(i) == i <= NumSteps

\* The loop condition i < processingSteps.length
LoopContinues(i) == i < NumSteps

\* A one-second timer of the phase loop fired: i++, then either the next
\* setProcessingStep(i) and timer, or the loop ends and the process request
\* is issued
TimerFire(k) ==
  /\ inv[k].pc = "timer"
  /\ LET next == inv[k].i + 1 IN
     IF LoopContinues(next)
     THEN /\ processingStep' = next
          /\ inv' = [inv EXCEPT ![k].i = next, ![k].shown = @ \cup {next}]
          /\ requests' = requests
     ELSE /\ inv' = [inv EXCEPT ![k].i = next, ![k].pc = "process",
                                ![k].processes = @ + 1]
          /\ requests' = requests \cup
               {[op |-> "process", inv |-> k, pid |-> inv[k].newProjectId,
                 file |-> Null]}
          /\ UNCHANGED <<processingStep>>
  /\ UNCHANGED <<uploadedImage, uploadedFile, projectId, isProcessing,
                 result3D, error, reading, downloads>>
  /\ UNCHANGED viewerVars

\* The process call resolved with a success body
ProcessResolve(k, body) ==
  /\ inv[k].pc = "process"
  /\ IF body.hasProject
     THEN /\ result3D' = <<MakeResult(inv[k].newProjectId, inv[k].image, body)>>
          /\ error' = error
          /\ inv' = [inv EXCEPT ![k].pc = "done", ![k].outcome = "completed",
                                ![k].body = <<body>>]
     ELSE \* processResponse.project.vertices_count throws a TypeError
          /\ result3D' = result3D
          /\ error' = CaughtMsg("")
          /\ inv' = [inv EXCEPT ![k].pc = "done", ![k].outcome = "badBody",
                                ![k].body = <<body>>]
  /\ isProcessing' = FALSE
  /\ UNCHANGED <<uploadedImage, uploadedFile, projectId, processingStep,
                 reading, downloads, requests>>
  /\ UNCHANGED viewerVars

\* Mutant of ProcessReject: the result is set although the call failed
ProcessReject_ResultAnyway(k, failure) ==
  /\ inv[k].pc = "process"
  /\ failure \in Failures
  /\ result3D' = <<[projectId |-> inv[k].newProjectId,
                    plyFile |-> DownloadUrl(inv[k].newProjectId),
                    stlFile |-> DownloadUrl(inv[k].newProjectId),
                    previewImage |-> inv[k].image,
                    stats |-> [vertices |-> FallbackVertices,
                               faces |-> FallbackFaces,
                               processingTime |-> "2.3s"]]>>
  /\ isProcessing' = FALSE
  /\ inv' = [inv EXCEPT ![k].pc = "done", ![k].outcome = "processFailed"]
  /\ UNCHANGED <<uploadedImage, uploadedFile, projectId, processingStep,
                 error, reading, downloads, requests>>
  /\ UNCHANGED viewerVars

\* Mutant of ProcessReject: the catch block without the finally block
ProcessReject_NoFinally(k, failure) ==
  /\ inv[k].pc = "process"
  /\ error' = CaughtMsg(ApiThrown("process", failure))
  /\ inv' = [inv EXCEPT ![k].pc = "done", ![k].outcome = "processFailed"]
  /\ UNCHANGED <<uploadedImage, uploadedFile, projectId, processingStep,
                 isProcessing, result3D, reading, downloads, requests>>
  /\ UNCHANGED viewerVars

\* The process call rejected
ProcessReject(k, failure) ==
  /\ inv[k].pc = "process"
  /\ error' = CaughtMsg(ApiThrown("process", failure))
  /\ isProcessing' = FALSE
  /\ inv' = [inv EXCEPT ![k].pc = "done", ![k].outcome = "processFailed"]
  /\ UNCHANGED <<uploadedImage, uploadedFile, projectId, processingStep,
                 result3D, reading, downloads, requests>>
  /\ UNCHANGED viewerVars

\* ------------------------------------------------------------ resetUpload
ReceivedIds == {inv[k].newProjectId : k \in 1..Len(inv)} \ {NoId}

\* Mutant of resetUpload: the error text is not cleared
resetUpload_KeepsError ==
  /\ ResetShown
  /\ uploadedImage' = Null
  /\ uploadedFile' = Null
  /\ result3D' = <<>>
  /\ isProcessing' = FALSE
  /\ processingStep' = 0
  /\ projectId' = NoId
  /\ UNCHANGED <<error, reading, inv, downloads, requests>>
  /\ UNCHANGED viewerVars

\* The reset button is rendered in the card of the uploaded image only
resetUpload ==
  /\ ResetShown
  /\ uploadedImage' = Null
  /\ uploadedFile' = Null
  /\ result3D' = <<>>
  /\ isProcessing' = FALSE
  /\ processingStep' = 0
  /\ error' = ""
  /\ projectId' = NoId
  /\ UNCHANGED <<reading, inv, downloads, requests>>
  /\ UNCHANGED viewerVars

\* --------------------------------------------------------- handleDownload
Formats == {"ply", "stl"}

\* link.download, the name the browser saves the blob under
DownloadName(id, format) == "model_" \o ToString(id) \o "." \o format

\* Click on a download button: the function up to its await.  The request is
\* GET /projects/<id>/download whatever the format; the format only names the
\* saved file, so an invocation awaiting its response is just counted.
handleDownload(format) ==
  /\ DownloadShown
  /\ format \in Formats
  /\ downloads < MaxDownloads
  /\ downloads' = downloads + 1
  /\ requests' = requests \cup
       {[op |-> "download", inv |-> 0, pid |-> result3D[1].projectId,
         file |-> Null]}
  /\ UNCHANGED <<pageVars, reading, inv>>
  /\ UNCHANGED viewerVars

\* The download resolved: the blob is handed to the browser under
\* DownloadName, no state of the page changes
DownloadResolve ==
  /\ downloads > 0
  /\ downloads' = downloads - 1
  /\ UNCHANGED <<pageVars, reading, inv, requests>>
  /\ UNCHANGED viewerVars

\* Mutant of DownloadReject: the failure also drops the shown result
DownloadReject_DropsResult(failure) ==
  /\ downloads > 0
  /\ failure \in Failures
  /\ error' = DownloadMsg
  /\ result3D' = <<>>
  /\ downloads' = downloads - 1
  /\ UNCHANGED <<uploadedImage, uploadedFile, projectId, isProcessing,
                 processingStep, reading, inv, requests>>
  /\ UNCHANGED viewerVars

\* The download rejected: catch.  What downloadProject threw,
\* ApiThrown("download", failure), is only logged; the text is fixed.
DownloadReject(failure) ==
  /\ downloads > 0
  /\ failure \in Failures
  /\ error' = DownloadMsg
  /\ downloads' = downloads - 1
  /\ UNCHANGED <<uploadedImage, uploadedFile, projectId, isProcessing,
                 processingStep, result3D, reading, inv, requests>>
  /\ UNCHANGED viewerVars

\* --------------------------------------------------------------------- spec
histVars == <<afterReset, staleIds, inOrder>>

Next ==
  \/ (\E f \in Files \cup {NoFile} : handleFileSelect(f)) /\ UNCHANGED histVars
  \/ (\E f \in Files : ReaderOnload(f)) /\ UNCHANGED histVars
  \/ startProcessing /\ UNCHANGED histVars
  \/ (\E k \in 1..Len(inv) : UploadResolve(k)) /\ UNCHANGED histVars
  \/ (\E k \in 1..Len(inv), x \in Failures : UploadReject(k, x))
       /\ UNCHANGED histVars
  \/ (\E k \in 1..Len(inv) : TimerFire(k)) /\ UNCHANGED histVars
  \/ (\E k \in 1..Len(inv), b \in MainBodies : ProcessResolve(k, b))
       /\ UNCHANGED histVars
  \/ (\E k \in 1..Len(inv), x \in Failures : ProcessReject(k, x))
       /\ UNCHANGED histVars
  \/ resetUpload /\ UNCHANGED histVars
  \/ (\E fmt \in Formats : handleDownload(fmt)) /\ UNCHANGED histVars
  \/ DownloadResolve /\ UNCHANGED histVars
  \/ (\E x \in Failures : DownloadReject(x)) /\ UNCHANGED histVars

Spec == Init /\ [][Next]_vars

\* One job at a time on a page whose first job is the only one, with every
\* shape of the process response: the data path of startProcessing
NextOneJob ==
  \/ (\E f \in Files \cup {NoFile} : handleFileSelect(f)) /\ UNCHANGED histVars
  \/ (\E f \in Files : ReaderOnload(f)) /\ UNCHANGED histVars
  \/ inv = <<>> /\ startProcessing /\ UNCHANGED histVars
  \/ (\E k \in 1..Len(inv) : UploadResolve(k)) /\ UNCHANGED histVars
  \/ (\E k \in 1..Len(inv), x \in Failures : UploadReject(k, x))
       /\ UNCHANGED histVars
  \/ (\E k \in 1..Len(inv) : TimerFire(k)) /\ UNCHANGED histVars
  \/ (\E k \in 1..Len(inv), b \in ProcessBodies : ProcessResolve(k, b))
       /\ UNCHANGED histVars
  \/ (\E k \in 1..Len(inv), x \in Failures : ProcessReject(k, x))
       /\ UNCHANGED histVars
  \/ resetUpload /\ UNCHANGED histVars
  \/ (\E fmt \in Formats : handleDownload(fmt)) /\ UNCHANGED histVars
  \/ DownloadResolve /\ UNCHANGED histVars
  \/ (\E x \in Failures : DownloadReject(x)) /\ UNCHANGED histVars

SpecOneJob == Init /\ [][NextOneJob]_vars

\* The continuation of invocation k after the await it is suspended at: its
\* upload request resolves or rejects, its phase timer fires, or its process
\* request resolves or rejects
Resume(k) ==
  /\ k \in 1..Len(inv)
  /\ \/ UploadResolve(k)
     \/ \E x \in Failures : UploadReject(k, x)
     \/ TimerFire(k)
     \/ \E b \in MainBodies : ProcessResolve(k, b)
     \/ \E x \in Failures : ProcessReject(k, x)
  /\ UNCHANGED histVars

\* The racing jobs of Spec without the downloads, which no invocation of
\* startProcessing reads or waits for
NextJobs ==
  \/ (\E f \in Files \cup {NoFile} : handleFileSelect(f)) /\ UNCHANGED histVars
  \/ (\E f \in Files : ReaderOnload(f)) /\ UNCHANGED histVars
  \/ startProcessing /\ UNCHANGED histVars
  \/ \E k \in 1..Len(inv) : Resume(k)
  \/ resetUpload /\ UNCHANGED histVars

\* The jobs on a network and an event loop that let no request and no timer
\* wait forever: a continuation that stays possible is eventually run
SpecFair ==
  Init /\ [][NextJobs]_vars /\ \A k \in 1..MaxInvocations : WF_vars(Resume(k))

\* The page observed by three histories.  kind is "reset" for resetUpload,
\* "user" for any other act of the user (selecting a file, its load,
\* Generate, Download) and "resume" for a continuation after an await.
Monitor(kind) ==
  /\ afterReset' = CASE kind = "reset" -> TRUE
                     [] kind = "user" -> FALSE
                     [] OTHER -> afterReset
  /\ staleIds' = IF kind = "reset" THEN ReceivedIds ELSE staleIds
  /\ inOrder' = IF Len(inv') > Len(inv) THEN TRUE
                ELSE inOrder /\ (\/ processingStep' = processingStep
                                 \/ processingStep' = processingStep + 1)

NextMonitored ==
  \/ (\E f \in Files \cup {NoFile} : handleFileSelect(f)) /\ Monitor("user")
  \/ (\E f \in Files : ReaderOnload(f)) /\ Monitor("user")
  \/ startProcessing /\ Monitor("user")
  \/ (\E k \in 1..Len(inv) : UploadResolve(k)) /\ Monitor("resume")
  \/ (\E k \in 1..Len(inv), x \in Failures : UploadReject(k, x))
       /\ Monitor("resume")
  \/ (\E k \in 1..Len(inv) : TimerFire(k)) /\ Monitor("resume")
  \/ (\E k \in 1..Len(inv), b \in MainBodies : ProcessResolve(k, b))
       /\ Monitor("resume")
  \/ (\E k \in 1..Len(inv), x \in Failures : ProcessReject(k, x))
       /\ Monitor("resume")
  \/ resetUpload /\ Monitor("reset")
  \/ (\E fmt \in Formats : handleDownload(fmt)) /\ Monitor("user")
  \/ DownloadResolve /\ Monitor("resume")
  \/ (\E x \in Failures : DownloadReject(x)) /\ Monitor("resume")

SpecMonitored == Init /\ [][NextMonitored]_vars

\* ------------------------------------------------------------------ viewer
\* loader.load's onLoad callback with the parsed file a: centre, scale, add
\* to the scene, retarget the controls (lines 109-130)
ModelLoaded(a) ==
  /\ loading
  /\ loading' = FALSE
  /\ LET m0 == FreshModel(a)
         box == SetFromObject(m0)
         center == GetCenter(box)
         m1 == [m0 EXCEPT !.position = VSub(@, center)]
         m2 == [m1 EXCEPT !.scale = FitScale(MaxSize(box))]
         upd == ControlsUpdate(camera, [controls EXCEPT !.target = center])
     IN /\ model' = <<m2>>
        /\ camera' = upd.camera
        /\ controls' = upd.controls
  /\ lastOp' = "load"
  /\ UNCHANGED <<wireframeMode, autoRotate, info, pendingFrames, wireBefore,
                 viewport>>
  /\ UNCHANGED uploadVars

\* loader.load's onError callback (lines 130-133)
\* Mutant of ModelLoadError: the load can still call back after the error
ModelLoadError_LoadStillPending ==
  /\ loading
  /\ info' = InfoLoadError
  /\ lastOp' = "loadError"
  /\ UNCHANGED <<model, wireframeMode, autoRotate, camera, controls,
                 loading, pendingFrames, wireBefore, viewport>>
  /\ UNCHANGED uploadVars

ModelLoadError ==
  /\ loading
  /\ loading' = FALSE
  /\ info' = InfoLoadError
  /\ lastOp' = "loadError"
  /\ UNCHANGED <<model, wireframeMode, autoRotate, camera, controls,
                 pendingFrames, wireBefore, viewport>>
  /\ UNCHANGED uploadVars

\* A pointer drag on the canvas: OrbitControls adds d to the orbit motion it
\* has pending
OrbitDrag(d) ==
  /\ d \in 1..MaxDrag
  /\ controls.delta + d <= MaxDrag
  /\ controls' = [controls EXCEPT !.delta = @ + d]
  /\ lastOp' = "drag"
  /\ UNCHANGED <<model, wireframeMode, autoRotate, camera, info, loading,
                 pendingFrames, wireBefore, viewport>>
  /\ UNCHANGED uploadVars

\* One frame: the callback registers itself again, turns the model when
\* auto-rotate is on and a model is there, and updates the controls
\* Mutant of animate: the model is turned whether or not auto-rotate is on
animate_RotatesUnconditionally ==
  /\ pendingFrames > 0
  /\ pendingFrames' = (pendingFrames - 1) + 1
  /\ IF model # <<>>
     THEN /\ model[1].rotation < MaxRotation
          /\ model' = <<[model[1] EXCEPT !.rotation = @ + 1]>>
     ELSE model' = model
  /\ LET upd == ControlsUpdate(camera, controls)
     IN /\ camera' = upd.camera
        /\ controls' = upd.controls
  /\ lastOp' = "animate"
  /\ UNCHANGED <<wireframeMode, autoRotate, info, loading, wireBefore,
                 viewport>>
  /\ UNCHANGED uploadVars

\* Mutant of animate: the frame does not register the next frame
animate_NotRescheduled ==
  /\ pendingFrames > 0
  /\ pendingFrames' = pendingFrames - 1
  /\ IF autoRotate /\ model # <<>>
     THEN /\ model[1].rotation < MaxRotation
          /\ model' = <<[model[1] EXCEPT !.rotation = @ + 1]>>
     ELSE model' = model
  /\ LET upd == ControlsUpdate(camera, controls)
     IN /\ camera' = upd.camera
        /\ controls' = upd.controls
  /\ lastOp' = "animate"
  /\ UNCHANGED <<wireframeMode, autoRotate, info, loading, wireBefore,
                 viewport>>
  /\ UNCHANGED uploadVars

animate ==
  /\ pendingFrames > 0
  /\ pendingFrames' = (pendingFrames - 1) + 1
  /\ IF autoRotate /\ model # <<>>
     THEN /\ model[1].rotation < MaxRotation
          /\ model' = <<[model[1] EXCEPT !.rotation = @ + 1]>>
     ELSE model' = model
  /\ LET upd == ControlsUpdate(camera, controls)
     IN /\ camera' = upd.camera
        /\ controls' = upd.controls
  /\ lastOp' = "animate"
  /\ UNCHANGED <<wireframeMode, autoRotate, info, loading, wireBefore,
                 viewport>>
  /\ UNCHANGED uploadVars

\* The camera and the controls as resetView leaves them for the box it
\* computed (lines 152-160)
ViewOf(box) ==
  LET distance == Times(MaxSize(box), Num(2))
  IN ControlsUpdate(
       [position |-> <<distance, Times(distance, Frac(1, 2)), distance>>,
        swing |-> 0],
       [controls EXCEPT !.target = GetCenter(box)])

\* Mutant of resetView: controls.update() is called outside the if (model)
\* block
resetView_UpdatesUnloaded ==
  /\ IF model # <<>>
     THEN \E upd \in {ViewOf(SetFromObject(model[1]))} :
            /\ camera' = upd.camera
            /\ controls' = upd.controls
     ELSE \E upd \in {ControlsUpdate(camera, controls)} :
            /\ camera' = upd.camera
            /\ controls' = upd.controls
  /\ lastOp' = "resetView"
  /\ UNCHANGED <<model, wireframeMode, autoRotate, info, loading,
                 pendingFrames, wireBefore, viewport>>
  /\ UNCHANGED uploadVars

\* Button "Reset View"
resetView ==
  /\ IF model # <<>>
     THEN \E upd \in {ViewOf(SetFromObject(model[1]))} :
            /\ camera' = upd.camera
            /\ controls' = upd.controls
     ELSE UNCHANGED <<camera, controls>>
  /\ lastOp' = "resetView"
  /\ UNCHANGED <<model, wireframeMode, autoRotate, info, loading,
                 pendingFrames, wireBefore, viewport>>
  /\ UNCHANGED uploadVars

\* Mutant of toggleWireframe: wireframeMode is flipped also while no model
\* is loaded
toggleWireframe_FlipsUnloaded ==
  /\ wireframeMode' = ~wireframeMode
  /\ IF model # <<>>
     THEN LET m == model[1]
              visited == Traverse(AssetGraph(m.asset), 1)
          IN /\ model' = <<[m EXCEPT !.wireframe =
                              [n \in DOMAIN @ |->
                                 IF n \in visited THEN ~wireframeMode
                                 ELSE @[n]]]>>
             /\ wireBefore' = <<m.wireframe>>
     ELSE UNCHANGED <<model, wireBefore>>
  /\ lastOp' = "toggleWireframe"
  /\ UNCHANGED <<autoRotate, camera, controls, info, loading, pendingFrames,
                 viewport>>
  /\ UNCHANGED uploadVars

\* Button "Wireframe"
toggleWireframe ==
  /\ IF model # <<>>
     THEN LET m == model[1]
              visited == Traverse(AssetGraph(m.asset), 1)
          IN /\ wireframeMode' = ~wireframeMode
             /\ model' = <<[m EXCEPT !.wireframe =
                              [n \in DOMAIN @ |->
                                 IF n \in visited THEN ~wireframeMode
                                 ELSE @[n]]]>>
             /\ wireBefore' = <<m.wireframe>>
     ELSE UNCHANGED <<wireframeMode, model, wireBefore>>
  /\ lastOp' = "toggleWireframe"
  /\ UNCHANGED <<autoRotate, camera, controls, info, loading, pendingFrames,
                 viewport>>
  /\ UNCHANGED uploadVars

\* Button "Auto Rotate"
toggleAutoRotate ==
  /\ autoRotate' = ~autoRotate
  /\ lastOp' = "toggleAutoRotate"
  /\ UNCHANGED <<model, wireframeMode, camera, controls, info, loading,
                 pendingFrames, wireBefore, viewport>>
  /\ UNCHANGED uploadVars

\* window 'resize' listener
resize(w) ==
  /\ viewport' = Viewport(w)
  /\ lastOp' = "resize"
  /\ UNCHANGED <<model, wireframeMode, autoRotate, camera, controls, info,
                 loading, pendingFrames, wireBefore>>
  /\ UNCHANGED uploadVars

NextViewer ==
  \/ \E a \in Assets : ModelLoaded(a)
  \/ ModelLoadError
  \/ \E d \in 1..MaxDrag : OrbitDrag(d)
  \/ animate
  \/ resetView
  \/ toggleWireframe
  \/ toggleAutoRotate
  \/ \E w \in WindowSizes : resize(w)

SpecViewer == Init /\ [][NextViewer]_vars

\* ================================================================== claims
\* A step in which an invocation of startProcessing that already exists
\* resumes after one of its awaits (upload, phase timer or process call)
InvocationResumed(k) ==
  /\ Len(inv') = Len(inv)
  /\ k \in 1..Len(inv)
  /\ inv'[k] # inv[k]

Issued(op, k) == \E r \in requests : r.op = op /\ r.inv = k

\* The process call of some invocation came back with a success response
\* for project id
ProcessSucceeded(id) ==
  \E k \in 1..Len(inv) :
    inv[k].newProjectId = id /\ inv[k].outcome \in {"completed", "badBody"}

AllPhases == {0, 1, 2, 3, 4, 5, 6}

\* C1: once resetUpload has run and the user has done nothing since, an
\* invocation of startProcessing that resumes from its upload, a phase timer
\* or its process call leaves result3D, projectId, error, isProcessing and
\* processingStep at their cleared initial values.
C1_LateResolutionIgnored ==
  [][(afterReset /\ \E k \in 1..Len(inv) : InvocationResumed(k))
       => /\ result3D' = <<>>
          /\ projectId' = NoId
          /\ error' = ""
          /\ isProcessing' = FALSE
          /\ processingStep' = 0]_vars

\* C2: every process request carries the project id the upload of the same
\* invocation returned, every download request carries the id of a job whose
\* upload returned it, and no process or download request carries an id that
\* was received before the most recent resetUpload.
C2_NoStaleIdInRequests ==
  [][\A r \in requests' \ requests :
       /\ r.op = "process" =>
            /\ r.pid = ServerId(r.inv)
            /\ r.pid \notin staleIds
       /\ r.op = "download" =>
            /\ \E k \in 1..Len(inv) : r.pid = ServerId(k) /\ Issued("process", k)
            /\ r.pid \notin staleIds]_vars

\* C3: when a newer invocation of startProcessing exists, a step in which an
\* earlier invocation resumes (its upload, a phase timer or its process call
\* came back, successfully or not) changes none of result3D, error,
\* projectId, processingStep and isProcessing.
C3_EarlierJobInert ==
  [][\A k \in 1..Len(inv) :
       (k < Len(inv) /\ InvocationResumed(k))
         => UNCHANGED <<result3D, error, projectId, processingStep,
                        isProcessing>>]_vars

\* C4: selecting a file that is not an image, or no file, sets the
\* validation error, starts no read of the file and issues no request, in
\* whatever state the page is; and no upload request ever carries a file
\* that is not an image.
C4_NonImageRejected ==
  [][\A f \in OtherFiles \cup {NoFile} :
       handleFileSelect(f) =>
         /\ error' = ValidationMsg
         /\ requests' = requests
         /\ reading' = reading
         /\ uploadedFile' \in ImageFiles \cup {Null}
         /\ \A r \in requests : r.op = "upload" => r.file \in ImageFiles]_vars

C4_Witness ==
  /\ error = ValidationMsg
  /\ \E k \in 1..Len(inv) : inv[k].pc = "process"

\* C5: whenever the download buttons are rendered, the process call for the
\* project id of the shown result has come back with a success response, and
\* every download request issued so far is for such a project id.
C5_DownloadOnlyAfterSuccess ==
  /\ DownloadShown => ProcessSucceeded(result3D[1].projectId)
  /\ \A r \in requests : r.op = "download" => ProcessSucceeded(r.pid)

C5_Witness ==
  /\ DownloadShown
  /\ \E r \in requests : r.op = "download" /\ r.pid = result3D[1].projectId

\* C6: a process request exists only for an invocation whose upload resolved
\* with a project id, and carries that id; an invocation whose upload failed
\* has issued no process request; and a result is shown only for a project
\* whose process request was issued and has come back.
C6_UploadThenProcessThenResult ==
  /\ \A r \in requests : r.op = "process" =>
       /\ inv[r.inv].newProjectId # NoId
       /\ inv[r.inv].outcome # "uploadFailed"
       /\ r.pid = inv[r.inv].newProjectId
  /\ \A k \in 1..Len(inv) :
       inv[k].outcome = "uploadFailed" => ~Issued("process", k)
  /\ result3D # <<>> =>
       \E k \in 1..Len(inv) :
         /\ inv[k].newProjectId = result3D[1].projectId
         /\ Issued("process", k)
         /\ inv[k].pc = "done"

C6_Witness ==
  /\ result3D # <<>>
  /\ \E k \in 1..Len(inv) : inv[k].outcome = "uploadFailed"

C8_AllPhasesInOrder ==
  result3D # <<>> => (inOrder /\ processingStep = 6)

ClaimedTime(t) ==
  CASE t = Absent -> "2.3s"
    [] t = 0 -> "0s"
    [] t = 15 -> "1.5s"

\* C10: the stats of a shown result are, for each metric, the fallback
\* (15420, 30840, "2.3s") when the process response lacks the field and the
\* value of the field otherwise, 0 included (the time with "s" appended).
C10_MetricsRoundTrip ==
  \A k \in 1..Len(inv) :
    (/\ result3D # <<>>
     /\ inv[k].outcome = "completed"
     /\ inv[k].newProjectId = result3D[1].projectId)
      => LET b == inv[k].body[1]
             st == result3D[1].stats
         IN /\ st.vertices =
                 IF b.vertices_count = Absent THEN 15420 ELSE b.vertices_count
            /\ st.faces =
                 IF b.faces_count = Absent THEN 30840 ELSE b.faces_count
            /\ st.processingTime = ClaimedTime(b.processing_time)


\* The page after resetUpload: every field back at its initial value
Cleared ==
  /\ uploadedImage = Null
  /\ uploadedFile = Null
  /\ projectId = NoId
  /\ result3D = <<>>
  /\ error = ""
  /\ isProcessing = FALSE
  /\ processingStep = 0

\* C11 as claimed: resetUpload can be invoked in every state of the page,
\* the empty state and every state that shows an error included.
C11_ResetAlwaysEnabled == ENABLED resetUpload

\* C11 as amended: resetUpload can be invoked exactly in the states that
\* show a preview image, and every resetUpload step ends with selected file,
\* preview, project id, result and error cleared, isProcessing false and
\* processingStep 0.
C11_ResetWhenPreviewShown ==
  [][/\ (ENABLED resetUpload) <=> (uploadedImage # Null)
     /\ resetUpload => Cleared']_vars

C11_Witness ==
  /\ Cleared
  /\ \E k \in 1..Len(inv) : inv[k].outcome = "completed"


\* The state of the job the page shows, read off the page's fields
JobState ==
  IF error # "" THEN "error"
  ELSE IF result3D # <<>> THEN "completed"
  ELSE IF isProcessing
       THEN IF projectId = NoId THEN "uploading"
            ELSE IF \E k \in 1..Len(inv) : inv[k].pc = "process"
                 THEN "processing"
                 ELSE "uploaded"
  ELSE IF uploadedImage # Null THEN "fileSelected"
  ELSE "empty"

ChainEdges ==
  {<<"empty", "fileSelected">>, <<"fileSelected", "uploading">>,
   <<"uploading", "uploaded">>, <<"uploaded", "processing">>,
   <<"processing", "completed">>}

\* The awaits one invocation of startProcessing passes through
JobEdges ==
  {<<"upload", "timer">>, <<"upload", "done">>, <<"timer", "timer">>,
   <<"timer", "process">>, <<"process", "done">>, <<"done", "done">>,
   <<"upload", "upload">>, <<"process", "process">>}

\* C12 as claimed: apart from resetUpload, the job state stays or moves one
\* edge along empty, fileSelected, uploading, uploaded, processing,
\* completed, and the error state is entered only from fileSelected,
\* uploading or processing (never from empty, never from completed).
C12_ErrorOnlyFromActiveStates ==
  [][\/ resetUpload
     \/ JobState' = JobState
     \/ <<JobState, JobState'>> \in ChainEdges
     \/ /\ JobState' = "error"
        /\ JobState \in {"fileSelected", "uploading", "processing"}]_vars

\* C12 as amended: every invocation of startProcessing starts from a page
\* that shows the Generate button and moves only along upload, phase
\* timers, process call, done, leaving that chain only by a failure of the
\* upload or of the process call; and an error text becomes shown only by
\* the rejection of a non-image selection (while no preview is shown, the
\* empty state included), by a failed upload, by a failed or malformed
\* process response, or by a failed download.
C12_JobChainAndErrorSources ==
  [][/\ \A k \in 1..Len(inv) : <<inv[k].pc, inv'[k].pc>> \in JobEdges
     /\ Len(inv') > Len(inv) =>
          /\ GenerateShown
          /\ inv'[Len(inv')].pc = "upload"
     /\ (error' # error /\ error' # "") =>
          \/ /\ error' = ValidationMsg
             /\ uploadedImage = Null
             /\ UNCHANGED <<inv, reading, downloads>>
          \/ \E k \in 1..Len(inv) :
               /\ inv[k].pc \in {"upload", "process"}
               /\ inv'[k].pc = "done"
               /\ inv'[k].outcome \in {"uploadFailed", "processFailed", "badBody"}
          \/ /\ error' = DownloadMsg
             /\ downloads' = downloads - 1]_vars

C12_Witness ==
  /\ JobState = "error"
  /\ error = ValidationMsg
  /\ uploadedImage = Null
  /\ \E k \in 1..Len(inv) : inv[k].outcome = "completed"


\* C13: a download that fails sets the error text to the download message
\* and changes none of result3D, projectId, uploadedFile and isProcessing,
\* and neither does the click that requested it; the download buttons are
\* rendered after the failure exactly if they were before it.
C13_DownloadFailureKeepsResult ==
  [][/\ (\E fmt \in Formats : handleDownload(fmt)) =>
          UNCHANGED <<result3D, projectId, uploadedFile, isProcessing, error>>
     /\ (\E x \in Failures : DownloadReject(x)) =>
          /\ error' = DownloadMsg
          /\ UNCHANGED <<result3D, projectId, uploadedFile, isProcessing>>
          /\ DownloadShown' = DownloadShown]_vars

C13_Witness ==
  /\ error = DownloadMsg
  /\ DownloadShown
  /\ downloads = 0
  /\ \E r \in requests : r.op = "download" /\ r.pid = result3D[1].projectId


\* The texts the claim allows for a failure of op: the server's message when
\* the response carries one, else a fallback that names the operation
ClaimedTexts(op, failure) ==
  IF failure = "serverError" THEN {ServerMsg}
  ELSE CASE op = "upload" -> {ApiFallback("upload")}
         [] op = "process" -> {ApiFallback("process"), PageFallbackMsg}
         [] op = "download" -> {ApiFallback("download"), DownloadMsg}

\* C14: when an upload, a process call or a download fails, the error text
\* shown is the server's message if the error response carries one, and
\* otherwise the fallback text of the operation that failed.
C14_ServerMessageElseOwnFallback ==
  [][\A x \in Failures :
       /\ \A k \in 1..Len(inv) :
            /\ UploadReject(k, x) => error' \in ClaimedTexts("upload", x)
            /\ ProcessReject(k, x) => error' \in ClaimedTexts("process", x)
       /\ DownloadReject(x) => error' \in ClaimedTexts("download", x)]_vars


\* C15: every invocation of startProcessing sends one upload request and at
\* most one process request; a failed upload, process call or download ends
\* its handler without sending anything; a click on a download button sends
\* exactly one download request; and a request is sent only by a click
\* (Generate, Download) or by the end of the phase loop of a job that has
\* not failed.
C15_NoAutomaticRetry ==
  [][/\ \A k \in 1..Len(inv') :
          inv'[k].uploads = 1 /\ inv'[k].processes <= 1
     /\ \A k \in 1..Len(inv) :
          /\ inv[k].outcome # "running" => inv'[k] = inv[k]
          /\ \A x \in Failures :
               (UploadReject(k, x) \/ ProcessReject(k, x)) =>
                 /\ requests' = requests
                 /\ inv'[k].pc = "done"
                 /\ inv'[k].uploads = inv[k].uploads
                 /\ inv'[k].processes = inv[k].processes
     /\ \A x \in Failures :
          DownloadReject(x) =>
            requests' = requests /\ downloads' = downloads - 1
     /\ \A fmt \in Formats :
          handleDownload(fmt) =>
            /\ downloads' = downloads + 1
            /\ \A r \in requests' \ requests :
                 r.op = "download" /\ r.pid = result3D[1].projectId
     /\ (requests' # requests \/ downloads' > downloads) =>
          \/ startProcessing
          \/ \E fmt \in Formats : handleDownload(fmt)
          \/ \E k \in 1..Len(inv) :
               /\ TimerFire(k)
               /\ inv[k].processes = 0
               /\ inv[k].outcome = "running"
               /\ requests' \ requests =
                    {[op |-> "process", inv |-> k,
                      pid |-> inv[k].newProjectId, file |-> Null]}]_vars

C15_Witness ==
  /\ Len(inv) = 2
  /\ inv[1].outcome = "uploadFailed"
  /\ inv[2].processes = 1
  /\ Cardinality({r \in requests : r.op = "upload"}) = 2


\* The model as it is right after the load callback framed it
Framed == model # <<>> /\ model[1].rotation = 0

\* C16: once the load callback has centred and scaled the model, the centre
\* of the model's bounding box in scene coordinates is the origin, for
\* every file, scaled-down and off-centre ones included.
C16_FramedBoxCentredAtOrigin ==
  Framed => GetCenter(SetFromObject(model[1])) = Zero3

C19_ToggleSetsEveryMesh ==
  [][(toggleWireframe /\ model # <<>>)
       => /\ wireframeMode' = ~wireframeMode
          /\ \A n \in Meshes(model[1].asset) :
               model'[1].wireframe[n] = wireframeMode']_vars

C19_Witness ==
  /\ lastOp = "toggleWireframe"
  /\ model # <<>>
  /\ wireframeMode
  /\ AssetGraph(model[1].asset) = NestedGraph
  /\ model[1].wireframe[6]

\* C20: a resetView call that directly follows another resetView call on
\* the same loaded model leaves the camera position and the orbit target
\* where the first call put them.
C20_ResetViewTwiceSame ==
  [][(resetView /\ lastOp = "resetView" /\ model # <<>>)
       => /\ camera' = camera
          /\ controls'.target = controls.target]_vars


\* C21: a resetView call on a loaded model sets the orbit target to the
\* centre of the model's current bounding box and puts the camera on the
\* diagonal (1, 1/2, 1) through that centre, at the multiple 2 of the
\* largest box dimension: camera position = centre + (d, d/2, d) with
\* d = 2 * maxSize.
C21_CameraOffDiagonalFromCentre ==
  [][(resetView /\ model # <<>>)
       => LET box == SetFromObject(model[1])
              d == Times(Num(2), MaxSize(box))
          IN /\ controls'.target = GetCenter(box)
             /\ camera'.position =
                  VAdd(GetCenter(box), <<d, Times(d, Frac(1, 2)), d>>)]_vars


\* C22: toggleAutoRotate flips the auto-rotate flag and leaves the camera,
\* the orbit controls, the wireframe flag and the model (scale, position,
\* rotation, materials) as they were; a frame adds the fixed increment (one
\* unit of 0.01 rad) to the model's rotation about the vertical axis exactly
\* when auto-rotate is on and a model is loaded, leaves the model as it was
\* otherwise, and updates the orbit controls in both cases.
C22_AutoRotateFrame ==
  [][/\ toggleAutoRotate
          => /\ autoRotate' = ~autoRotate
             /\ UNCHANGED <<camera, controls, wireframeMode, model>>
     /\ animate
          => /\ IF autoRotate /\ model # <<>>
                THEN model' = <<[model[1] EXCEPT
                                   !.rotation = model[1].rotation + 1]>>
                ELSE model' = model
             /\ [camera |-> camera', controls |-> controls'] =
                  ControlsUpdate(camera, controls)]_vars

C22_Witness ==
  /\ lastOp = "animate"
  /\ autoRotate
  /\ model # <<>>
  /\ model[1].rotation > 0


\* C23: from init() on, exactly one callback of the render loop is
\* registered for the next frame in every state, whatever load outcome,
\* frames, drags, resetView, toggleWireframe, toggleAutoRotate and resize
\* events have occurred.
C23_OneFramePending == pendingFrames = 1

C23_Witness ==
  /\ lastOp = "resize"
  /\ ~loading
  /\ model = <<>>
  /\ autoRotate
  /\ viewport # Viewport(WindowAtOpen)
  /\ pendingFrames = 1


\* C24: when the load fails, the overlay shows the load error text (which
\* tells the user to put the GLB file in the same folder) and no model is
\* set; from then on the overlay keeps that text and the model reference
\* stays unset in every later step.
C24_LoadErrorShownModelUnset ==
  [][/\ ModelLoadError => info' = InfoLoadError /\ model' = <<>>
     /\ info = InfoLoadError => info' = InfoLoadError /\ model' = <<>>]_vars

C24_Witness ==
  /\ info = InfoLoadError
  /\ model = <<>>
  /\ lastOp = "resetView"
  /\ autoRotate


\* C25: in every state in which some invocation of startProcessing has not
\* finished (its upload request, one of its phase timers or its process
\* request is still pending), the "Generate 3D Model" button is not shown.
C25_NoGenerateWhileInFlight ==
  (\E k \in 1..Len(inv) : inv[k].pc # "done") => ~GenerateShown


\* The invocations of startProcessing that have not finished, and the oldest
\* of them (0 when there is none)
Unfinished == {k \in 1..Len(inv) : inv[k].pc # "done"}

Oldest ==
  IF Unfinished = {} THEN 0
  ELSE CHOOSE k \in Unfinished : \A j \in Unfinished : k <= j

\* C26: when no issued request and no timer waits forever, every invocation
\* of startProcessing that got past the file check finishes, whether its
\* upload and process requests succeed or fail (the oldest unfinished
\* invocation is replaced again and again, or from some point on no
\* invocation is unfinished); the step in which an invocation finishes sets
\* isProcessing to FALSE; and the page is in the processing state only while
\* an invocation is unfinished, so it does not stay in that state forever.
C26_ProcessingEnds ==
  /\ []<><<Oldest' # Oldest>>_vars \/ <>[](Oldest = 0)
  /\ [][\A k \in 1..Len(inv) :
          (InvocationResumed(k) /\ inv'[k].pc = "done")
            => ~isProcessing']_vars
  /\ [](isProcessing => Unfinished # {})

C26_Witness ==
  /\ Len(inv) = MaxInvocations
  /\ \A k \in 1..Len(inv) : inv[k].pc = "done"
  /\ inv[1].outcome = "processFailed"
  /\ inv[2].outcome = "completed"
  /\ ~isProcessing


\* C27: a step in which the upload request of an invocation fails shows an
\* error text and sets isProcessing to FALSE, leaves the file selected, the
\* project id null and the result unset, issues no process request for the
\* invocation, and so ends in a state that offers "Generate 3D Model" again.
C27_UploadFailureEndsInErrorState ==
  [][\A k \in 1..Len(inv) : \A x \in Failures :
       UploadReject(k, x)
         => /\ error' # ""
            /\ ~isProcessing'
            /\ uploadedFile' # Null
            /\ projectId' = NoId
            /\ result3D' = <<>>
            /\ \A r \in requests' : ~(r.op = "process" /\ r.inv = k)
            /\ GenerateShown']_vars


\* C28: a step in which the process request of an invocation resolves with
\* a success body, whatever its shape (metrics present or absent, project
\* object present or absent), ends with the invocation completed, a result
\* set for its project id and no error text shown.
C28_SuccessBodyCompletes ==
  [][\A k \in 1..Len(inv) : \A b \in ProcessBodies :
       ProcessResolve(k, b)
         => /\ inv'[k].outcome = "completed"
            /\ result3D' # <<>>
            /\ result3D'[1].projectId = inv[k].newProjectId
            /\ error' = ""]_vars


\* C29: in every reachable state of the upload page the phase index
\* processingStep is an integer from 0 to 6, an index of one of the seven
\* phase labels, whatever invocations, timers, responses and resets have
\* interleaved.
C29_PhaseIndexInRange == processingStep \in 0..(NumSteps - 1)

C29_Witness ==
  /\ Len(inv) = MaxInvocations
  /\ processingStep = NumSteps - 1
  /\ \E k \in 1..Len(inv) : inv[k].pc = "timer" /\ inv[k].i < processingStep


\* C30: while no model is set (before the load has finished and after a
\* failed load) a frame leaves the model unset, so nothing is rotated, a
\* resetView call leaves the camera and the orbit controls as they were, a
\* toggleWireframe call leaves wireframeMode as it was and a
\* toggleAutoRotate call flips autoRotate; and each of the four operations
\* can run in every such state.
C30_NoModelNoEffect ==
  /\ [][model = <<>>
          => /\ animate => model' = <<>>
             /\ resetView => UNCHANGED <<camera, controls>>
             /\ toggleWireframe => UNCHANGED <<wireframeMode, model>>
             /\ toggleAutoRotate => autoRotate' = ~autoRotate]_vars
  /\ [](model = <<>>
          => /\ ENABLED animate
             /\ ENABLED resetView
             /\ ENABLED toggleWireframe
             /\ ENABLED toggleAutoRotate)

C30_Witness ==
  /\ model = <<>>
  /\ ~loading
  /\ lastOp = "resetView"
  /\ controls.delta > 0
  /\ wireframeMode = FALSE

====
